---- MODULE Spec2Model ----
(***************************************************************************)
(* Model of new_twitch_watcher.py: the poll scheduler and the live-session *)
(* tracker of MainWindow (specifications Spec and SpecKeys), the           *)
(* credential manager (_ensure_token / _get_headers_safely /               *)
(* _persist_config) run by the GUI thread and by the worker thread         *)
(* (specification SpecCred), and TwitchChecker.check_channels on lists of  *)
(* up to three chunks (specification SpecFetch).                           *)
(*                                                                         *)
(* Strings that the code normalises (channel logins) are sequences of      *)
(* one-character strings, so that strip() and lower() are computed.        *)
(* Time is int(time.time()): the variable now, advanced by Advance.        *)
(***************************************************************************)
EXTENDS Integers, Sequences, FiniteSets, TLC

\* ---------------------------------------------------------------- bounds
StartEpoch == 1000       \* the epoch second at which the window is constructed
MaxElapsed == 301        \* the clock is followed for this many seconds
MaxQueue == 1            \* check cycles in flight (requested, not yet applied) that are followed
MaxExchanges == 2        \* tokens that the token endpoint issues
MaxPending == 2          \* check cycles in flight where their order is followed

\* ------------------------------------------------------ program constants
RECONNECT_GRACE_SEC == 300
TOKEN_REFRESH_BUFFER_SEC == 300
\* Python's None in an integer field (offline_since)
None == -1

\* ------------------------------------------------------------- strings
alice == <<"a">>
bob == <<"b">>
IsSpace(ch) == ch = " "
\* str.lower() on one character
LowerChar(ch) ==
  CASE ch = "A" -> "a" [] ch = "B" -> "b" [] ch = "U" -> "u" [] OTHER -> ch
Lower(s) == [i \in 1..Len(s) |-> LowerChar(s[i])]
RECURSIVE LStrip(_)
LStrip(s) == IF s # <<>> /\ IsSpace(Head(s)) THEN LStrip(Tail(s)) ELSE s
RECURSIVE RStrip(_)
RStrip(s) ==
  IF s # <<>> /\ IsSpace(s[Len(s)]) THEN RStrip(SubSeq(s, 1, Len(s) - 1)) ELSE s
\* str.strip()
Strip(s) == RStrip(LStrip(s))
\* text.strip().lower()
NormLogin(s) == Lower(Strip(s))

\* what the user can type into le_channel
TypedLogins == { <<>>, <<" ">>, <<"a">>, <<" ", "A">>, <<"b", " ">>, <<"B">> }

\* values the platform can put in a stream's id and started_at
Offline == [live |-> FALSE, started_at |-> "", id |-> ""]
LiveStatuses ==
  { [live |-> TRUE, started_at |-> "t1", id |-> "100"],
    [live |-> TRUE, started_at |-> "t1", id |-> ""],
    [live |-> TRUE, started_at |-> "", id |-> ""] }
Statuses == LiveStatuses \cup { Offline }
\* what the platform reports for a login while the model follows it: alice goes
\* through every status, bob stays offline
StatusesOf(login) == IF login = alice THEN Statuses ELSE { Offline }

\* the clock moves a grace period, or a second more, at a time
TimeSteps == { RECONNECT_GRACE_SEC, RECONNECT_GRACE_SEC + 1 }

Has(f, k) == k \in DOMAIN f
\* dict with key k set to v
Put(f, k, v) == [x \in DOMAIN f \cup {k} |-> IF x = k THEN v ELSE f[x]]
\* dict without the keys in ks
Drop(f, ks) == [x \in DOMAIN f \ ks |-> f[x]]
EmptyDict == [x \in {} |-> 0]
SeqToSet(s) == { s[i] : i \in 1..Len(s) }
\* Python truthiness of an Optional[int]
Truthy(x) == x # None /\ x # 0

VARIABLES
  now,            \* int(time.time())
  list_channels,  \* the logins of the ChannelItemWidgets of list_channels, in order
  live_sessions,  \* MainWindow.live_sessions: login -> session record
  timer_active,   \* QTimer.isActive()
  timer_interval, \* QTimer.interval(), in milliseconds
  le_minutes,     \* number typed into the minutes field, Empty if it is blank
  le_seconds,     \* number typed into the seconds field, Empty if it is blank
  sigCheckQ,      \* sigCheck events queued to the worker thread
  resultQ,        \* resultReady events queued to the GUI thread
  errorQ,         \* errorSignal / authErrorSignal events queued to the GUI thread
  opened,         \* login -> number of _open_stream_once calls made by the step just taken
  branch,         \* login -> the branch of _on_result taken for it by the step just taken
  expired,        \* logins whose record the expiry sweep of the step just taken removed
  lastResult,     \* the latest result that _on_result applied
  cleared,        \* _start_poll has cleared live_sessions since the latest _on_result
  firedKeys,      \* login -> session keys for which _open_stream_once has been called
  everLive,       \* logins that some applied result reported live
  le_client_id,   \* text of the Client ID field
  le_client_secret,      \* text of the Client Secret field
  le_token,              \* text of the read-only Access Token field
  cfg_access_token,      \* cfg["access_token"]
  cfg_token_expires_at,  \* cfg["token_expires_at"]
  issued,         \* issued[n]: the expiry that came with token n (now + expires_in)
  ens,            \* thread -> the frame of its _ensure_token call
  wk              \* the worker thread's position and locals in check_channels

vars == << now, list_channels, live_sessions, timer_active, timer_interval,
           le_minutes, le_seconds, sigCheckQ, resultQ, errorQ,
           opened, branch, expired, lastResult, cleared, firedKeys, everLive,
           le_client_id, le_client_secret, le_token, cfg_access_token,
           cfg_token_expires_at, issued, ens, wk >>

intervalVars == << timer_interval, le_minutes, le_seconds >>
trackerVars == << list_channels, live_sessions, timer_active, timer_interval,
                  le_minutes, le_seconds, errorQ, opened, branch, expired,
                  lastResult, cleared, firedKeys, everLive >>
credVars == << le_client_id, le_client_secret, le_token, cfg_access_token,
               cfg_token_expires_at, issued, ens, wk >>

\* _persist_config line 626: cfg's token is rewritten from the read-only field
PersistedToken(widget_token) == widget_token

\* a handler of the scheduler that calls _persist_config
SavesConfig ==
  /\ cfg_access_token' = PersistedToken(le_token)
  /\ UNCHANGED << le_client_id, le_client_secret, le_token, cfg_token_expires_at,
                  issued, ens, wk >>

\* a step that is not _on_result: no _open_stream_once call, no tracker branch
NoTracking ==
  /\ opened' = EmptyDict
  /\ branch' = EmptyDict
  /\ expired' = {}
  /\ UNCHANGED << lastResult, firedKeys, everLive >>

\* ------------------------------------------------------------ channels
\* MainWindow._channels
Channels == [i \in 1..Len(list_channels) |-> NormLogin(list_channels[i])]

\* MainWindow._on_add_channel and _add_channel_item
OnAddChannel(text) ==
  LET c == NormLogin(text)
      login == NormLogin(c)
  IN /\ list_channels' =
          IF c = <<>> \/ login = <<>> \/ login \in SeqToSet(Channels)
          THEN list_channels
          ELSE Append(list_channels, login)
     /\ UNCHANGED << now, live_sessions, timer_active, sigCheckQ, resultQ >>
     /\ NoTracking /\ UNCHANGED cleared
     /\ SavesConfig
     /\ UNCHANGED errorQ
     /\ UNCHANGED intervalVars

RECURSIVE FirstIndex(_, _, _)
FirstIndex(s, x, i) ==
  IF i > Len(s) THEN 0 ELSE IF s[i] = x THEN i ELSE FirstIndex(s, x, i + 1)
RemoveAt(s, i) == SubSeq(s, 1, i - 1) \o SubSeq(s, i + 1, Len(s))

\* MainWindow._remove_channel_by_login, from a row's remove button
RemoveChannelByLogin(login) ==
  LET i == FirstIndex(list_channels, login, 1)
  IN /\ login \in SeqToSet(list_channels)
     /\ list_channels' = IF i = 0 THEN list_channels ELSE RemoveAt(list_channels, i)
     /\ UNCHANGED << now, live_sessions, timer_active, sigCheckQ, resultQ >>
     /\ NoTracking /\ UNCHANGED cleared
     /\ SavesConfig
     /\ UNCHANGED errorQ
     /\ UNCHANGED intervalVars

\* ----------------------------------------------------------- scheduler
\* a blank interval field
Empty == -1
\* what the user can leave in the minutes and the seconds field; their
\* validators (lines 263-264) admit digits only
MinuteTexts == { Empty, 1 }
SecondTexts == { 0, 75 }

\* MainWindow._current_interval_sec, _ival: int(s or default), clamped to lo..hi
Ival(text, lo, hi) ==
  LET v == IF text = Empty THEN 0 ELSE text
  IN IF v < lo THEN lo ELSE IF v > hi THEN hi ELSE v

\* MainWindow._current_interval_sec
CurrentIntervalSec ==
  LET total == Ival(le_minutes, 0, 9999) * 60 + Ival(le_seconds, 0, 59)
  IN IF total < 1 THEN 1 ELSE total

\* le_minutes.textChanged, line 392: _persist_config
OnMinutesEdited(text) ==
  /\ text # le_minutes
  /\ le_minutes' = text
  /\ UNCHANGED << now, list_channels, live_sessions, timer_active, timer_interval,
                  le_seconds, sigCheckQ, resultQ, errorQ >>
  /\ NoTracking /\ UNCHANGED cleared
  /\ SavesConfig

\* le_seconds.textChanged, line 393: _persist_config
OnSecondsEdited(text) ==
  /\ text # le_seconds
  /\ le_seconds' = text
  /\ UNCHANGED << now, list_channels, live_sessions, timer_active, timer_interval,
                  le_minutes, sigCheckQ, resultQ, errorQ >>
  /\ NoTracking /\ UNCHANGED cleared
  /\ SavesConfig

\* MainWindow._invoke_check, emitting twice
InvokeCheck_Twice(q) == IF Channels = <<>> THEN q ELSE Append(Append(q, Channels), Channels)

\* MainWindow._invoke_check: the sigCheck queue after the call
InvokeCheck(q) == IF Channels = <<>> THEN q ELSE Append(q, Channels)

\* MainWindow._manual_check
ManualCheck ==
  /\ Len(sigCheckQ) + Len(resultQ) < MaxQueue
  /\ sigCheckQ' = InvokeCheck(sigCheckQ)
  /\ UNCHANGED << now, list_channels, live_sessions, timer_active, resultQ >>
  /\ NoTracking /\ UNCHANGED cleared
  /\ SavesConfig
  /\ UNCHANGED errorQ
  /\ UNCHANGED intervalVars

\* mutant: _start_poll keeps the session records
StartSessions_Kept(ls) == ls

\* MainWindow._start_poll: what it does to the session records
StartSessions(ls) == EmptyDict

\* MainWindow._start_poll (toolbar action, or the tray action, which stays enabled)
StartPoll ==
  /\ Len(sigCheckQ) + Len(resultQ) < MaxQueue
  /\ live_sessions' = StartSessions(live_sessions)
  /\ timer_active' = TRUE
  /\ sigCheckQ' = InvokeCheck(sigCheckQ)
  /\ UNCHANGED << now, list_channels, resultQ >>
  /\ NoTracking /\ cleared' = TRUE
  /\ SavesConfig
  /\ UNCHANGED errorQ
  /\ timer_interval' = CurrentIntervalSec * 1000
  /\ UNCHANGED << le_minutes, le_seconds >>

\* MainWindow._stop_poll line 799: timer.stop()
StopTimer_Ignored(active) == active

StopTimer(active) == FALSE

\* MainWindow._stop_poll
StopPoll ==
  /\ timer_active' = StopTimer(timer_active)
  /\ UNCHANGED << now, list_channels, live_sessions, sigCheckQ, resultQ >>
  /\ NoTracking /\ UNCHANGED cleared
  /\ UNCHANGED credVars
  /\ UNCHANGED errorQ
  /\ UNCHANGED intervalVars

\* MainWindow._on_timer: the QTimer's timeout, delivered while it is active
OnTimer ==
  /\ timer_active
  /\ Len(sigCheckQ) + Len(resultQ) < MaxQueue
  /\ sigCheckQ' = InvokeCheck(sigCheckQ)
  /\ UNCHANGED << now, list_channels, live_sessions, timer_active, resultQ >>
  /\ NoTracking /\ UNCHANGED cleared
  /\ UNCHANGED credVars
  /\ UNCHANGED errorQ
  /\ UNCHANGED intervalVars

\* time passes
Advance(d) ==
  /\ now + d <= StartEpoch + MaxElapsed
  /\ now' = now + d
  /\ UNCHANGED << list_channels, live_sessions, timer_active, sigCheckQ, resultQ >>
  /\ NoTracking /\ UNCHANGED cleared
  /\ UNCHANGED credVars
  /\ UNCHANGED errorQ
  /\ UNCHANGED intervalVars

\* -------------------------------------------------------------- worker
\* check_channels line 84 without the lower()
NormalizeLogins_NoLower(logins) ==
  LET keep == SelectSeq(logins, LAMBDA l : l # <<>> /\ Strip(l) # <<>>)
  IN [i \in 1..Len(keep) |-> Strip(keep[i])]

\* TwitchChecker.check_channels line 84
NormalizeLogins(logins) ==
  LET keep == SelectSeq(logins, LAMBDA l : l # <<>> /\ Strip(l) # <<>>)
  IN [i \in 1..Len(keep) |-> NormLogin(keep[i])]

\* the errorSignal / authErrorSignal emissions of one check_channels call for
\* one chunk: none, one (lines 94, 112, 128), or two (line 104, then 107 or 112)
ErrorSignals == 0..2

\* TwitchChecker.check_channels, as one step of the worker thread: the result it
\* emits has every normalised login, offline unless the platform reported it live
CheckChannels ==
  /\ sigCheckQ # <<>>
  /\ \E out \in [SeqToSet(NormalizeLogins(Head(sigCheckQ))) -> Statuses] :
        /\ \A l \in DOMAIN out : out[l] \in StatusesOf(l)
        /\ resultQ' = Append(resultQ, out)
  /\ \E signals \in ErrorSignals : errorQ' = errorQ + signals
  /\ sigCheckQ' = Tail(sigCheckQ)
  /\ UNCHANGED << now, list_channels, live_sessions, timer_active >>
  /\ NoTracking /\ UNCHANGED cleared
  /\ UNCHANGED credVars
  /\ UNCHANGED intervalVars

\* ------------------------------------------------------ session tracker
\* mutant: the started_at fallback is dropped
SessionKey_IdOnly(info) == info.id

\* _on_result line 861
SessionKey(info) ==
  IF info.id # "" THEN info.id ELSE IF info.started_at # "" THEN info.started_at ELSE ""

\* mutant: the expiry sweep deletes a record on the last second of its grace
ToDelete_AtBoundary(ls, t) ==
  { l \in DOMAIN ls :
      Truthy(ls[l].offline_since) /\ t - ls[l].offline_since >= RECONNECT_GRACE_SEC }

\* _on_result lines 849-856: the logins the expiry sweep deletes
ToDelete(ls, t) ==
  { l \in DOMAIN ls :
      Truthy(ls[l].offline_since) /\ t - ls[l].offline_since > RECONNECT_GRACE_SEC }

\* mutant: the expiry sweep is skipped
Sweep_Skipped(ls, t) == ls

\* _on_result lines 849-856: the records left by the expiry sweep
Sweep(ls, t) == Drop(ls, ToDelete(ls, t))

\* mutant: the grace window excludes its last second
InGrace_Strict(offline_since, t) ==
  Truthy(offline_since) /\ t - offline_since < RECONNECT_GRACE_SEC

\* _on_result line 883: a changed session id counts as a reconnect
InGrace(offline_since, t) ==
  Truthy(offline_since) /\ t - offline_since <= RECONNECT_GRACE_SEC

\* mutant: an empty session id never matches the record
SameSession_NonEmpty(session_id, prev_session) ==
  session_id # "" /\ session_id = prev_session

\* _on_result line 878: the observation belongs to the recorded session
SameSession(session_id, prev_session) == session_id = prev_session

\* mutant: the session id is compared with the record's started_at
BranchOf_CmpStartedAt(ls, login, info, t) ==
  IF info.live
  THEN IF ~Has(ls, login) THEN "first"
       ELSE IF SessionKey(info) = ls[login].started_at THEN "same"
       ELSE IF InGrace(ls[login].offline_since, t) THEN "reconnect"
       ELSE "new"
  ELSE IF Has(ls, login) /\ ~Truthy(ls[login].offline_since) THEN "went_offline"
       ELSE "offline_noop"

\* mutant: every offline observation restarts the grace window
BranchOf_OfflineRestarts(ls, login, info, t) ==
  IF info.live
  THEN IF ~Has(ls, login) THEN "first"
       ELSE IF SameSession(SessionKey(info), ls[login].session_id) THEN "same"
       ELSE IF InGrace(ls[login].offline_since, t) THEN "reconnect"
       ELSE "new"
  ELSE IF Has(ls, login) THEN "went_offline"
       ELSE "offline_noop"

\* _on_result lines 860-901 for one login: the branch taken
BranchOf(ls, login, info, t) ==
  IF info.live
  THEN IF ~Has(ls, login) THEN "first"
       ELSE IF SameSession(SessionKey(info), ls[login].session_id) THEN "same"
       ELSE IF InGrace(ls[login].offline_since, t) THEN "reconnect"
       ELSE "new"
  ELSE IF Has(ls, login) /\ ~Truthy(ls[login].offline_since) THEN "went_offline"
       ELSE "offline_noop"

\* mutant: the page is opened only when the login has no record
Opens_FirstOnly(ls, login, info, t) == BranchOf(ls, login, info, t) = "first"

\* mutant: the page is opened on a reconnect within grace too
Opens_OnReconnect(ls, login, info, t) ==
  BranchOf(ls, login, info, t) \in { "first", "new", "reconnect" }

\* mutant: the page is opened for every login of the result
Opens_EveryLogin(ls, login, info, t) == TRUE

\* _on_result lines 860-901 for one login: whether _open_stream_once is called
Opens(ls, login, info, t) == BranchOf(ls, login, info, t) \in { "first", "new" }

\* mutant: going offline leaves offline_since unset
OfflineSince_Unset(t) == None

\* _on_result line 900: prev["offline_since"] = now_epoch
OfflineSince(t) == t

\* _on_result lines 860-901 for one login: live_sessions afterwards
TrackOne(ls, login, info, t) ==
  LET b == BranchOf(ls, login, info, t)
  IN CASE b = "first" ->
            Put(ls, login, [session_id |-> SessionKey(info),
                            started_at |-> info.started_at,
                            last_seen |-> t,
                            offline_since |-> None])
       [] b = "same" ->
            Put(ls, login, [ls[login] EXCEPT !.last_seen = t, !.offline_since = None])
       [] b \in { "reconnect", "new" } ->
            Put(ls, login, [session_id |-> SessionKey(info),
                            started_at |-> info.started_at,
                            last_seen |-> t,
                            offline_since |-> None])
       [] b = "went_offline" ->
            Put(ls, login, [ls[login] EXCEPT !.offline_since = OfflineSince(t)])
       [] OTHER -> ls

\* _on_result lines 859-901: the loop over result.items()
RECURSIVE TrackAll(_, _, _, _)
TrackAll(ls, result, todo, t) ==
  IF todo = {} THEN ls
  ELSE LET login == CHOOSE l \in todo : TRUE
       IN TrackAll(TrackOne(ls, login, result[login], t), result, todo \ {login}, t)

\* MainWindow._on_result, run by the GUI thread for a queued resultReady
ApplyResult ==
  /\ resultQ # <<>>
  /\ errorQ = 0     \* the signals of a cycle are queued before its resultReady
  /\ LET result == Head(resultQ)
         swept == Sweep(live_sessions, now)
     IN /\ live_sessions' = TrackAll(swept, result, DOMAIN result, now)
        /\ opened' = [l \in DOMAIN result |->
                        IF Opens(swept, l, result[l], now) THEN 1 ELSE 0]
        /\ branch' = [l \in DOMAIN result |-> BranchOf(swept, l, result[l], now)]
        /\ expired' = DOMAIN live_sessions \ DOMAIN swept
        /\ everLive' = everLive \cup { l \in DOMAIN result : result[l].live }
        /\ lastResult' = result
        /\ cleared' = FALSE
  /\ resultQ' = Tail(resultQ)
  /\ UNCHANGED << now, list_channels, timer_active, sigCheckQ >>
  /\ UNCHANGED credVars
  /\ UNCHANGED errorQ
  /\ UNCHANGED intervalVars

OnResult == ApplyResult /\ UNCHANGED firedKeys

\* MainWindow._on_error and _on_auth_error only write to the log: the timer
\* stays as it is
TimerAfterError_Stopped(active) == FALSE

TimerAfterError(active) == active

\* MainWindow._on_error / _on_auth_error, run by the GUI thread for a queued
\* errorSignal / authErrorSignal
OnError ==
  /\ errorQ > 0
  /\ errorQ' = errorQ - 1
  /\ timer_active' = TimerAfterError(timer_active)
  /\ UNCHANGED << now, list_channels, live_sessions, sigCheckQ, resultQ >>
  /\ NoTracking /\ UNCHANGED cleared
  /\ UNCHANGED credVars
  /\ UNCHANGED intervalVars

\* _on_result, with the session keys of its _open_stream_once calls accumulated
OnResultKeys ==
  /\ ApplyResult
  /\ firedKeys' = [l \in DOMAIN firedKeys \cup DOMAIN opened' |->
                     (IF Has(firedKeys, l) THEN firedKeys[l] ELSE {})
                     \cup (IF Has(opened', l) /\ opened'[l] > 0
                           THEN { SessionKey(Head(resultQ)[l]) } ELSE {})]

\* ---------------------------------------------------- credential manager
\* The two threads that run MainWindow code: the GUI thread, and the worker
\* thread, which calls _get_headers_safely (the callable given to TwitchChecker
\* at line 376) from inside check_channels.  Nothing in the program orders
\* their accesses to cfg and to the widgets, so each access is a step of its own.
Threads == { "gui", "worker" }

\* An access token is the number of the exchange that issued it; 0 is "".
NoToken == 0

\* what the token endpoint can answer to the POST of line 551
ExpiresIns == { TOKEN_REFRESH_BUFFER_SEC, 2 * TOKEN_REFRESH_BUFFER_SEC + 1 }
TokenResponses ==
  { [kind |-> "http_error", has_token |-> FALSE, expires_in |-> 0],
    [kind |-> "network_error", has_token |-> FALSE, expires_in |-> 0],
    [kind |-> "ok", has_token |-> TRUE, expires_in |-> 0],
    [kind |-> "ok", has_token |-> FALSE, expires_in |-> 2 * TOKEN_REFRESH_BUFFER_SEC + 1] }
  \cup { [kind |-> "ok", has_token |-> TRUE, expires_in |-> e] : e \in ExpiresIns }

\* what the user can type into the Client ID and Client Secret fields
ClientIdTexts == { <<>>, <<"c">> }
ClientSecretTexts == { <<>>, <<" ">>, <<"s">> }

\* the frame of a _ensure_token call: its position, its arguments, its locals,
\* and what the call has done so far
IdleFrame ==
  [ pc |-> "idle", force |-> FALSE, force_refresh |-> FALSE,
    client_id |-> <<>>, client_secret |-> <<>>, now |-> 0, exp_at |-> 0,
    access_token |-> NoToken, expires_in |-> 0,
    ok |-> FALSE,            \* the value returned
    posted |-> FALSE,        \* the POST of line 551 was sent
    entry |-> << NoToken, 0 >>,  \* cfg's token and expiry when the call began
    raced |-> FALSE ]        \* the other thread has written them since

\* _ensure_token lines 533-536: the call reads the two credential fields, the
\* clock and cfg's expiry
CallFrame(force, force_refresh, id_text, secret_text, t, token, expires_at) ==
  [ IdleFrame EXCEPT !.pc = "e538", !.force = force, !.force_refresh = force_refresh,
                     !.client_id = Strip(id_text), !.client_secret = Strip(secret_text),
                     !.now = t, !.exp_at = expires_at,
                     !.entry = << token, expires_at >> ]

\* a write of cfg's token or expiry by thread t is seen by the other thread's call
Raced(frames, t) ==
  [ u \in Threads |-> IF u # t /\ frames[u].pc # "idle"
                      THEN [ frames[u] EXCEPT !.raced = TRUE ] ELSE frames[u] ]

\* _ensure_token line 538, second and third conjunct
TokenUsable_NoBuffer(token, exp_at, t) == token # NoToken /\ exp_at - t > 0

TokenUsable(token, exp_at, t) ==
  token # NoToken /\ exp_at - t > TOKEN_REFRESH_BUFFER_SEC

\* _ensure_token line 538: the cached token is returned without an exchange
UseCached(f, token) ==
  ~f.force_refresh /\ TokenUsable(token, f.exp_at, f.now) /\ ~f.force

\* _ensure_token line 558
ValidPayload(access_token, expires_in) == access_token # NoToken /\ expires_in # 0

\* _ensure_token lines 551-560 leave cfg's token as it was, whatever the answer
TokenAfterPost_StoredEarly(token, payload_token) ==
  IF payload_token # NoToken THEN payload_token ELSE token

TokenAfterPost(token, payload_token) == token

\* a write of cfg's token and expiry by thread t, with the frames as t leaves them
WriteCfg(t, token, expires_at, frames) ==
  /\ cfg_access_token' = token
  /\ cfg_token_expires_at' = expires_at
  /\ ens' = IF << token, expires_at >> # << cfg_access_token, cfg_token_expires_at >>
            THEN Raced(frames, t) ELSE frames

\* _ensure_token lines 538-547
E538(t) ==
  /\ ens[t].pc = "e538"
  /\ LET f == ens[t]
     IN ens' = [ ens EXCEPT ![t] =
                   IF UseCached(f, cfg_access_token)
                   THEN [ f EXCEPT !.pc = "ret", !.ok = TRUE ]
                   ELSE IF f.client_id = <<>>
                   THEN [ f EXCEPT !.pc = "ret", !.ok = FALSE ]
                   ELSE IF f.client_secret = <<>>
                   THEN [ f EXCEPT !.pc = "ret", !.ok = FALSE ]
                   ELSE [ f EXCEPT !.pc = "e551" ] ]
  /\ UNCHANGED << le_client_id, le_client_secret, le_token, cfg_access_token,
                  cfg_token_expires_at, issued, wk >>
  /\ UNCHANGED << now, sigCheckQ, resultQ >> /\ UNCHANGED trackerVars

\* _ensure_token lines 551-560 and the except clauses 576-581: the POST and
\* the validation of its answer
E551(t, resp) ==
  /\ ens[t].pc = "e551"
  /\ LET f == ens[t]
         payload_token == IF resp.kind = "ok" /\ resp.has_token
                          THEN Len(issued) + 1 ELSE NoToken
     IN /\ payload_token # NoToken => Len(issued) < MaxExchanges
        /\ issued' = IF payload_token # NoToken
                     THEN Append(issued, f.now + resp.expires_in) ELSE issued
        /\ cfg_access_token' = TokenAfterPost(cfg_access_token, payload_token)
        /\ ens' = [ ens EXCEPT ![t] =
                      IF resp.kind = "ok" /\ ValidPayload(payload_token, resp.expires_in)
                      THEN [ f EXCEPT !.pc = "e562", !.posted = TRUE,
                                      !.access_token = payload_token,
                                      !.expires_in = resp.expires_in ]
                      ELSE [ f EXCEPT !.pc = "ret", !.posted = TRUE, !.ok = FALSE ] ]
  /\ UNCHANGED << le_client_id, le_client_secret, le_token, cfg_token_expires_at, wk >>
  /\ UNCHANGED << now, sigCheckQ, resultQ >> /\ UNCHANGED trackerVars

\* _ensure_token line 562
E562(t) ==
  /\ ens[t].pc = "e562"
  /\ WriteCfg(t, ens[t].access_token, cfg_token_expires_at,
              [ ens EXCEPT ![t].pc = "e563" ])
  /\ UNCHANGED << le_client_id, le_client_secret, le_token, issued, wk >>
  /\ UNCHANGED << now, sigCheckQ, resultQ >> /\ UNCHANGED trackerVars

\* _ensure_token line 563
E563(t) ==
  /\ ens[t].pc = "e563"
  /\ WriteCfg(t, cfg_access_token, ens[t].now + ens[t].expires_in,
              [ ens EXCEPT ![t].pc = "e564" ])
  /\ UNCHANGED << le_client_id, le_client_secret, le_token, issued, wk >>
  /\ UNCHANGED << now, sigCheckQ, resultQ >> /\ UNCHANGED trackerVars

\* _ensure_token line 564
E564(t) ==
  /\ ens[t].pc = "e564"
  /\ le_token' = ens[t].access_token
  /\ ens' = [ ens EXCEPT ![t].pc = "e571" ]
  /\ UNCHANGED << le_client_id, le_client_secret, cfg_access_token,
                  cfg_token_expires_at, issued, wk >>
  /\ UNCHANGED << now, sigCheckQ, resultQ >> /\ UNCHANGED trackerVars

\* _ensure_token lines 567-574: _persist_config, then return True
E571(t) ==
  /\ ens[t].pc = "e571"
  /\ WriteCfg(t, PersistedToken(le_token), cfg_token_expires_at,
              [ ens EXCEPT ![t].pc = "ret", ![t].ok = TRUE ])
  /\ UNCHANGED << le_client_id, le_client_secret, le_token, issued, wk >>
  /\ UNCHANGED << now, sigCheckQ, resultQ >> /\ UNCHANGED trackerVars

\* one step of a _ensure_token call of thread t
EnsureTokenStep(t) ==
  \/ E538(t)
  \/ \E resp \in TokenResponses : E551(t, resp)
  \/ E562(t)
  \/ E563(t)
  \/ E564(t)
  \/ E571(t)

\* -------------------------------------------- GUI thread, credentials
\* the GUI thread runs one handler at a time
GuiIdle == ens["gui"].pc = "idle"

\* _on_creds_changed lines 525-530, for an edit of the Client ID field (line 389)
OnClientIdChanged(text) ==
  /\ GuiIdle
  /\ text # le_client_id
  /\ le_client_id' = text
  /\ le_token' = NoToken
  /\ WriteCfg("gui", PersistedToken(NoToken), 0,
              [ ens EXCEPT !["gui"] =
                  CallFrame(FALSE, FALSE, text, le_client_secret, now,
                            PersistedToken(NoToken), 0) ])
  /\ UNCHANGED << le_client_secret, issued, wk >>
  /\ UNCHANGED << now, sigCheckQ, resultQ >> /\ UNCHANGED trackerVars

\* _on_creds_changed lines 525-530, for an edit of the Client Secret field (line 390)
OnClientSecretChanged(text) ==
  /\ GuiIdle
  /\ text # le_client_secret
  /\ le_client_secret' = text
  /\ le_token' = NoToken
  /\ WriteCfg("gui", PersistedToken(NoToken), 0,
              [ ens EXCEPT !["gui"] =
                  CallFrame(FALSE, FALSE, le_client_id, text, now,
                            PersistedToken(NoToken), 0) ])
  /\ UNCHANGED << le_client_id, issued, wk >>
  /\ UNCHANGED << now, sigCheckQ, resultQ >> /\ UNCHANGED trackerVars

\* the fetch-token button, line 388: _ensure_token(force=True)
OnFetchToken ==
  /\ GuiIdle
  /\ ens' = [ ens EXCEPT !["gui"] =
                CallFrame(TRUE, FALSE, le_client_id, le_client_secret, now,
                          cfg_access_token, cfg_token_expires_at) ]
  /\ UNCHANGED << le_client_id, le_client_secret, le_token, cfg_access_token,
                  cfg_token_expires_at, issued, wk >>
  /\ UNCHANGED << now, sigCheckQ, resultQ >> /\ UNCHANGED trackerVars

\* _persist_config, as the handlers of lines 391-393, 689, 760, 779 and 784 call it
PersistConfig ==
  /\ GuiIdle
  /\ WriteCfg("gui", PersistedToken(le_token), cfg_token_expires_at, ens)
  /\ UNCHANGED << le_client_id, le_client_secret, le_token, issued, wk >>
  /\ UNCHANGED << now, sigCheckQ, resultQ >> /\ UNCHANGED trackerVars

\* _start_poll lines 788-790, its part in the credentials: _persist_config, then
\* _ensure_token(force=False)
StartPollToken ==
  /\ GuiIdle
  /\ WriteCfg("gui", PersistedToken(le_token), cfg_token_expires_at,
              [ ens EXCEPT !["gui"] =
                  CallFrame(FALSE, FALSE, le_client_id, le_client_secret, now,
                            PersistedToken(le_token), cfg_token_expires_at) ])
  /\ UNCHANGED << le_client_id, le_client_secret, le_token, issued, wk >>
  /\ UNCHANGED << now, sigCheckQ, resultQ >> /\ UNCHANGED trackerVars

\* the GUI thread's _ensure_token call returns to its handler, which ends
GuiReturn ==
  /\ ens["gui"].pc = "ret"
  /\ ens' = [ ens EXCEPT !["gui"] = IdleFrame ]
  /\ UNCHANGED << le_client_id, le_client_secret, le_token, cfg_access_token,
                  cfg_token_expires_at, issued, wk >>
  /\ UNCHANGED << now, sigCheckQ, resultQ >> /\ UNCHANGED trackerVars

\* ------------------------------------ worker thread: _get_headers_safely
NoHeaders == [client_id |-> <<>>, token |-> NoToken]

\* the worker thread enters _get_headers_safely: line 584 calls _ensure_token
EnterGetHeaders(w) ==
  [ w EXCEPT !.g_pc = "g584", !.g_ok = FALSE, !.g_headers = NoHeaders ]

\* _get_headers_safely line 587: the token is about to expire
NeedsRefresh(token, expires_at, t) ==
  token # NoToken /\ expires_at - t <= TOKEN_REFRESH_BUFFER_SEC

\* _get_headers_safely lines 584-588, when the call of line 584 has returned
GH584 ==
  /\ wk.g_pc = "g584"
  /\ ens["worker"].pc = "ret"
  /\ IF ~ens["worker"].ok
     THEN /\ wk' = [ wk EXCEPT !.g_pc = "ret", !.g_ok = FALSE, !.g_headers = NoHeaders ]
          /\ ens' = [ ens EXCEPT !["worker"] = IdleFrame ]
     ELSE IF NeedsRefresh(cfg_access_token, cfg_token_expires_at, now)
     THEN /\ wk' = [ wk EXCEPT !.g_pc = "g588" ]
          /\ ens' = [ ens EXCEPT !["worker"] =
                        CallFrame(FALSE, TRUE, le_client_id, le_client_secret, now,
                                  cfg_access_token, cfg_token_expires_at) ]
     ELSE /\ wk' = [ wk EXCEPT !.g_pc = "g589" ]
          /\ ens' = [ ens EXCEPT !["worker"] = IdleFrame ]
  /\ UNCHANGED << le_client_id, le_client_secret, le_token, cfg_access_token,
                  cfg_token_expires_at, issued >>
  /\ UNCHANGED << now, sigCheckQ, resultQ >> /\ UNCHANGED trackerVars

\* _get_headers_safely line 588, when its call has returned: the value is dropped
GH588 ==
  /\ wk.g_pc = "g588"
  /\ ens["worker"].pc = "ret"
  /\ wk' = [ wk EXCEPT !.g_pc = "g589" ]
  /\ ens' = [ ens EXCEPT !["worker"] = IdleFrame ]
  /\ UNCHANGED << le_client_id, le_client_secret, le_token, cfg_access_token,
                  cfg_token_expires_at, issued >>
  /\ UNCHANGED << now, sigCheckQ, resultQ >> /\ UNCHANGED trackerVars

\* _get_headers_safely lines 589-594
GH589 ==
  /\ wk.g_pc = "g589"
  /\ LET token == cfg_access_token
         client_id == Strip(le_client_id)
     IN wk' = IF token = NoToken \/ client_id = <<>>
              THEN [ wk EXCEPT !.g_pc = "ret", !.g_ok = FALSE, !.g_headers = NoHeaders ]
              ELSE [ wk EXCEPT !.g_pc = "ret", !.g_ok = TRUE,
                               !.g_headers = [client_id |-> client_id, token |-> token] ]
  /\ UNCHANGED << le_client_id, le_client_secret, le_token, cfg_access_token,
                  cfg_token_expires_at, issued, ens >>
  /\ UNCHANGED << now, sigCheckQ, resultQ >> /\ UNCHANGED trackerVars

\* ---------------------------------------- worker thread: check_channels
CHUNK == 100

Min(a, b) == IF a < b THEN a ELSE b
\* check_channels line 99
NumChunks(logins) == (Len(logins) + CHUNK - 1) \div CHUNK
ChunkOf(logins, k) == SubSeq(logins, CHUNK * (k - 1) + 1, Min(CHUNK * k, Len(logins)))

\* the stream the platform reports for a live login
LiveInfo == [live |-> TRUE, started_at |-> "t1", id |-> "100"]

UpperChar(ch) ==
  CASE ch = "a" -> "A" [] ch = "b" -> "B" [] ch = "u" -> "U" [] OTHER -> ch
\* the platform may spell a user_login in another case than the request did
Upper(s) == [i \in 1..Len(s) |-> UpperChar(s[i])]

\* what the streams endpoint can answer to the GET of lines 102 and 109 for a
\* chunk: live is the set of user_login values of its data items
StreamResponses(chunk) ==
  { [kind |-> "unauthorized", live |-> {}],
    [kind |-> "http_error", live |-> {}],
    [kind |-> "network_error", live |-> {}] }
  \cup { [kind |-> "ok", live |-> s] :
           s \in { {}, { chunk[1] }, { Upper(chunk[Len(chunk)]) } } }

\* the lists that the slot check_channels is called with: empty, blank entries,
\* padded and upper-case spellings, a repeated login, two and three chunks
Digit == << "0", "1", "2", "3", "4", "5", "6", "7", "8", "9" >>
UserName(i) ==
  << "u", Digit[((i \div 100) % 10) + 1], Digit[((i \div 10) % 10) + 1],
     Digit[(i % 10) + 1] >>
LoginList(n) == [i \in 1..n |-> UserName(i)]
RequestLists ==
  { <<>>,
    << <<>>, <<" ">> >>,
    << <<" ", "A">>, <<>>, <<"a">>, <<" ">>, <<"b", " ">> >>,
    LoginList(CHUNK + 1),
    << <<"U", "0", "0", "0", " ">> >> \o LoginList(2 * CHUNK) }

\* the worker thread between two requests
IdleWorker ==
  [ pc |-> "idle", req |-> <<>>, logins |-> <<>>, out |-> EmptyDict,
    headers |-> NoHeaders, headers2 |-> NoHeaders, chunk |-> 0,
    g_pc |-> "none", g_ok |-> FALSE, g_headers |-> NoHeaders,
    reported |-> {},      \* the logins that parsed answers of this call reported live
    reqlog |-> <<>>,      \* the GETs of this call, see Sent
    refreshes |-> <<>>,   \* the _get_headers(force_refresh=True) calls of this call
    siglog |-> <<>> ]     \* the errorSignal / authErrorSignal emissions of this call

\* MainWindow._invoke_check's sigCheck.emit, seen from the worker: a request arrives
SigCheck(logins) ==
  /\ Len(sigCheckQ) + Len(resultQ) + (IF wk.pc = "idle" THEN 0 ELSE 1) < MaxQueue
  /\ sigCheckQ' = Append(sigCheckQ, logins)
  /\ UNCHANGED credVars
  /\ UNCHANGED << now, resultQ >> /\ UNCHANGED trackerVars

\* the same, with room for MaxPending cycles: a trigger can arrive while a cycle
\* is executing or while its result waits for the GUI thread
SigCheckPending(logins) ==
  /\ Len(sigCheckQ) + Len(resultQ) + (IF wk.pc = "idle" THEN 0 ELSE 1) < MaxPending
  /\ sigCheckQ' = Append(sigCheckQ, logins)
  /\ UNCHANGED credVars
  /\ UNCHANGED << now, resultQ >> /\ UNCHANGED trackerVars

\* mutant: the slot is entered while an earlier call is still executing
WorkerFree_Reentrant(w) == TRUE

\* lines 375-381: check_channels is a slot of an object living in the worker
\* QThread, connected across threads; the thread's event loop delivers the next
\* queued sigCheck only after the slot has returned
WorkerFree(w) == w.pc = "idle"

\* check_channels lines 85-87
AllOffline(logins) ==
  [ l \in SeqToSet(logins) |-> [live |-> FALSE, started_at |-> "", id |-> ""] ]

\* check_channels lines 84-92
CCBegin ==
  /\ WorkerFree(wk)
  /\ sigCheckQ # <<>>
  /\ sigCheckQ' = Tail(sigCheckQ)
  /\ LET logins == NormalizeLogins(Head(sigCheckQ))
         w == [ IdleWorker EXCEPT !.req = Head(sigCheckQ), !.logins = logins,
                                  !.out = AllOffline(logins) ]
     IN IF logins = <<>>
        THEN /\ wk' = w
             /\ resultQ' = Append(resultQ, w.out)
             /\ UNCHANGED ens
        ELSE /\ wk' = EnterGetHeaders([ w EXCEPT !.pc = "w92" ])
             /\ resultQ' = resultQ
             /\ ens' = [ ens EXCEPT !["worker"] =
                           CallFrame(FALSE, FALSE, le_client_id, le_client_secret, now,
                                     cfg_access_token, cfg_token_expires_at) ]
  /\ UNCHANGED << le_client_id, le_client_secret, le_token, cfg_access_token,
                  cfg_token_expires_at, issued >>
  /\ UNCHANGED now /\ UNCHANGED trackerVars

\* mutant: check_channels returns without emitting resultReady
Leave_NoEmit(w) ==
  /\ wk' = IF w.pc = "emit" THEN [ w EXCEPT !.pc = "idle" ] ELSE w
  /\ resultQ' = resultQ

\* the worker's record w leaves check_channels if w.pc is "emit": resultReady.emit(out)
Leave(w) ==
  IF w.pc = "emit"
  THEN /\ wk' = [ w EXCEPT !.pc = "idle" ]
       /\ resultQ' = Append(resultQ, w.out)
  ELSE /\ wk' = w
       /\ resultQ' = resultQ

\* check_channels lines 93-99, when _get_headers has returned
CC93 ==
  /\ wk.pc = "w92"
  /\ wk.g_pc = "ret"
  /\ Leave(IF ~wk.g_ok
           THEN [ wk EXCEPT !.siglog = Append(@, "error"), !.pc = "emit", !.g_pc = "none" ]
           ELSE [ wk EXCEPT !.headers = wk.g_headers, !.chunk = 1, !.pc = "w102",
                            !.g_pc = "none" ])
  /\ UNCHANGED << le_client_id, le_client_secret, le_token, cfg_access_token,
                  cfg_token_expires_at, issued, ens >>
  /\ UNCHANGED << now, sigCheckQ >> /\ UNCHANGED trackerVars

\* check_channels line 100: the next chunk, or line 125 after the last one
NextChunk(w) ==
  IF w.chunk < NumChunks(w.logins)
  THEN [ w EXCEPT !.chunk = @ + 1, !.pc = "w102" ]
  ELSE [ w EXCEPT !.pc = "emit" ]

\* check_channels lines 116-123
Merge(out, live) ==
  [ l \in DOMAIN out \cup { Lower(x) : x \in live } |->
      IF \E x \in live : Lower(x) = l THEN LiveInfo ELSE out[l] ]

\* check_channels lines 111-132: what the answer r does to the call
AfterResponse(w, resp) ==
  CASE resp.kind = "network_error" ->
         [ w EXCEPT !.siglog = Append(@, "error"), !.pc = "emit" ]
    [] resp.kind \in { "http_error", "unauthorized" } ->
         NextChunk([ w EXCEPT !.siglog = Append(@, "error") ])
    [] resp.kind = "ok" ->
         NextChunk([ w EXCEPT !.out = Merge(@, resp.live),
                              !.reported = @ \cup { Lower(x) : x \in resp.live } ])

\* a GET of lines 102 / 109: the chunk asked for, the token of its headers, the
\* answer's kind, and how many tokens had been issued when it was sent
Sent(chunk, headers, resp) ==
  [ chunk |-> chunk, token |-> headers.token, status |-> resp.kind,
    known |-> Len(issued) ]

\* check_channels line 109 sends the headers of the forced refresh
RetryHeaders_Stale(w) == w.headers

RetryHeaders(w) == w.headers2

\* check_channels lines 101-105: the GET for the current chunk
CC102 ==
  /\ wk.pc = "w102"
  /\ \E resp \in StreamResponses(ChunkOf(wk.logins, wk.chunk)) :
     LET w == [ wk EXCEPT !.reqlog = Append(@, Sent(wk.chunk, wk.headers, resp)) ]
     IN IF resp.kind = "unauthorized"
        THEN /\ wk' = EnterGetHeaders([ w EXCEPT !.siglog = Append(@, "auth"),
                                                 !.pc = "w105" ])
             /\ resultQ' = resultQ
             /\ ens' = [ ens EXCEPT !["worker"] =
                           CallFrame(FALSE, TRUE, le_client_id, le_client_secret, now,
                                     cfg_access_token, cfg_token_expires_at) ]
        ELSE /\ Leave(AfterResponse(w, resp))
             /\ UNCHANGED ens
  /\ UNCHANGED << le_client_id, le_client_secret, le_token, cfg_access_token,
                  cfg_token_expires_at, issued >>
  /\ UNCHANGED << now, sigCheckQ >> /\ UNCHANGED trackerVars

\* check_channels lines 106-108, when _get_headers(force_refresh=True) has returned
CC106 ==
  /\ wk.pc = "w105"
  /\ wk.g_pc = "ret"
  /\ Leave(IF ~wk.g_ok
           THEN [ wk EXCEPT !.siglog = Append(@, "error"), !.pc = "emit", !.g_pc = "none",
                            !.refreshes = Append(@, [chunk |-> wk.chunk, ok |-> FALSE,
                                                    token |-> wk.g_headers.token]) ]
           ELSE [ wk EXCEPT !.headers2 = wk.g_headers, !.pc = "w109", !.g_pc = "none",
                            !.refreshes = Append(@, [chunk |-> wk.chunk, ok |-> TRUE,
                                                    token |-> wk.g_headers.token]) ])
  /\ UNCHANGED << le_client_id, le_client_secret, le_token, cfg_access_token,
                  cfg_token_expires_at, issued, ens >>
  /\ UNCHANGED << now, sigCheckQ >> /\ UNCHANGED trackerVars

\* check_channels line 109: the GET is sent again, with headers2
CC109 ==
  /\ wk.pc = "w109"
  /\ \E resp \in StreamResponses(ChunkOf(wk.logins, wk.chunk)) :
     Leave(AfterResponse([ wk EXCEPT !.reqlog =
                                       Append(@, Sent(wk.chunk, RetryHeaders(wk), resp)) ],
                         resp))
  /\ UNCHANGED << le_client_id, le_client_secret, le_token, cfg_access_token,
                  cfg_token_expires_at, issued, ens >>
  /\ UNCHANGED << now, sigCheckQ >> /\ UNCHANGED trackerVars

\* one step of the worker thread
WorkerStep ==
  \/ CCBegin
  \/ EnsureTokenStep("worker")
  \/ GH584
  \/ GH588
  \/ GH589
  \/ CC93
  \/ CC102
  \/ CC106
  \/ CC109

\* ------------------------------------------------------- specification
Init ==
  /\ now = StartEpoch
  /\ list_channels \in { <<>>, << alice, bob >> }
  /\ live_sessions = EmptyDict
  /\ timer_active = FALSE
  /\ timer_interval = 0
  /\ le_minutes = 1
  /\ le_seconds = 0
  /\ sigCheckQ = <<>>
  /\ resultQ = <<>>
  /\ errorQ = 0
  /\ opened = EmptyDict
  /\ branch = EmptyDict
  /\ expired = {}
  /\ lastResult = EmptyDict
  /\ cleared = FALSE
  /\ firedKeys = EmptyDict
  /\ everLive = {}
  /\ le_client_id = <<>>
  /\ le_client_secret = <<>>
  /\ le_token = NoToken
  /\ cfg_access_token = NoToken
  /\ cfg_token_expires_at = 0
  /\ issued = <<>>
  /\ ens = [t \in Threads |-> IdleFrame]
  /\ wk = IdleWorker

Next ==
  \/ \E text \in TypedLogins : OnAddChannel(text)
  \/ \E login \in SeqToSet(list_channels) : RemoveChannelByLogin(login)
  \/ ManualCheck
  \/ StartPoll
  \/ StopPoll
  \/ OnTimer
  \/ \E d \in TimeSteps : Advance(d)
  \/ CheckChannels
  \/ OnError
  \/ OnResult

Spec == Init /\ [][Next]_vars

\* Spec with the interval fields edited
NextSched ==
  \/ Next
  \/ \E text \in MinuteTexts : OnMinutesEdited(text)
  \/ \E text \in SecondTexts : OnSecondsEdited(text)

SpecSched == Init /\ [][NextSched]_vars

\* Spec with the session keys of the effect calls accumulated in firedKeys
NextKeys ==
  \/ \E text \in TypedLogins : OnAddChannel(text)
  \/ \E login \in SeqToSet(list_channels) : RemoveChannelByLogin(login)
  \/ ManualCheck
  \/ StartPoll
  \/ StopPoll
  \/ OnTimer
  \/ \E d \in TimeSteps : Advance(d)
  \/ CheckChannels
  \/ OnError
  \/ OnResultKeys

SpecKeys == Init /\ [][NextKeys]_vars

\* The credential manager and check_channels, statement by statement: the GUI
\* thread's credential handlers, and the worker thread serving sigCheck.
\* The window is constructed with the config file's credentials; _ensure_token
\* of line 409 has run, so a token that the file held or that line 409 fetched
\* may be stored.
InitCredentials ==
  \/ /\ le_client_id = <<>> /\ le_client_secret = <<>>
     /\ le_token = NoToken /\ cfg_access_token = NoToken
     /\ cfg_token_expires_at = 0 /\ issued = <<>>
  \/ /\ le_client_id = <<"c">> /\ le_client_secret = <<"s">>
     /\ le_token = NoToken /\ cfg_access_token = NoToken
     /\ cfg_token_expires_at = 0 /\ issued = <<>>
  \/ /\ le_client_id = <<"c">> /\ le_client_secret \in { <<>>, <<"s">> }
     /\ le_token = 1 /\ cfg_access_token = 1
     /\ \E e \in ExpiresIns :
          /\ cfg_token_expires_at = StartEpoch + e
          /\ issued = << StartEpoch + e >>

InitFetch ==
  /\ now = StartEpoch
  /\ list_channels = <<>>
  /\ live_sessions = EmptyDict
  /\ timer_active = FALSE
  /\ timer_interval = 0
  /\ le_minutes = 1
  /\ le_seconds = 0
  /\ sigCheckQ = <<>>
  /\ resultQ = <<>>
  /\ errorQ = 0
  /\ opened = EmptyDict
  /\ branch = EmptyDict
  /\ expired = {}
  /\ lastResult = EmptyDict
  /\ cleared = FALSE
  /\ firedKeys = EmptyDict
  /\ everLive = {}
  /\ InitCredentials
  /\ ens = [t \in Threads |-> IdleFrame]
  /\ wk = IdleWorker

\* the GUI thread's credential handlers
GuiStep ==
  \/ \E text \in ClientIdTexts : OnClientIdChanged(text)
  \/ \E text \in ClientSecretTexts : OnClientSecretChanged(text)
  \/ OnFetchToken
  \/ PersistConfig
  \/ StartPollToken
  \/ EnsureTokenStep("gui")
  \/ GuiReturn

\* the credential manager under both threads: the worker serves checks of one channel
NextCred ==
  \/ GuiStep
  \/ SigCheck(<< alice >>)
  \/ WorkerStep
  \/ \E d \in TimeSteps : Advance(d)

SpecCred == InitFetch /\ [][NextCred]_vars

\* check_channels on every list of RequestLists, with the credentials as the
\* window's construction left them
NextFetch ==
  \/ \E logins \in RequestLists : SigCheck(logins)
  \/ WorkerStep
  \/ \E d \in TimeSteps : Advance(d)

SpecFetch == InitFetch /\ [][NextFetch]_vars

\* The path of a check cycle through the two threads: sigCheck queued to the
\* worker thread, check_channels statement by statement, resultReady queued to
\* the GUI thread, _on_result.  The triggers come with the watch set of their
\* moment.
WatchSets == { << alice >>, << bob >> }

NextOrder ==
  \/ \E logins \in WatchSets : SigCheckPending(logins)
  \/ WorkerStep
  \/ OnResult

SpecOrder == InitFetch /\ [][NextOrder]_vars

\* ================================================================ claims
\* what the claims say, written out from the specification's words
\* the key the specification derives: streamId if non-empty, else startedAt
KeyOf(info) == IF info.id = "" THEN info.started_at ELSE info.id
\* a record with offlineSince set whose grace window has run out at time t
PastGrace(rec, t) ==
  rec.offline_since # None /\ rec.offline_since # 0 /\ t - rec.offline_since > 300
\* a record in Grace at time t
WithinGrace(rec, t) ==
  rec.offline_since # None /\ rec.offline_since # 0 /\ t - rec.offline_since <= 300
\* the record of a session first seen at time t
FreshRecord(info, t) ==
  [session_id |-> KeyOf(info), started_at |-> info.started_at,
   last_seen |-> t, offline_since |-> None]
\* this step is _on_result applying the result at the head of resultQ
Applying == resultQ # <<>> /\ resultQ' = Tail(resultQ)
Applied == Head(resultQ)
\* the session keys for which the effect has fired for login c
Fired(c) == IF c \in DOMAIN firedKeys THEN firedKeys[c] ELSE {}

\* C1 as stated: over any run of scheduler operations and applied results the
\* effect fires at most once per channel per session key.
C1_OncePerSessionKey ==
  [][Applying =>
       \A c \in DOMAIN opened' :
         opened'[c] > 0 => opened'[c] = 1 /\ KeyOf(Applied[c]) \notin Fired(c)]_vars

\* C1 amended: only _on_result fires the effect, at most once per channel per
\* applied result, only for a channel the result reports live that (after the
\* expiry sweep) has no record or has a record of another session key that is
\* not in Grace; never for a same-session update or a suppressed reconnect.
C1_EffectOnlyForNewSession ==
  [][/\ ~Applying => opened' = EmptyDict
     /\ Applying =>
          /\ DOMAIN opened' = DOMAIN Applied
          /\ \A c \in DOMAIN Applied :
               /\ opened'[c] \in {0, 1}
               /\ opened'[c] = 1 =>
                    /\ Applied[c].live
                    /\ \/ c \notin DOMAIN live_sessions
                       \/ PastGrace(live_sessions[c], now)
                       \/ /\ live_sessions[c].session_id # KeyOf(Applied[c])
                          /\ ~WithinGrace(live_sessions[c], now)]_vars

\* C1 witness: the effect has fired for alice for a second session key
C1_Witness ==
  /\ alice \in DOMAIN opened /\ opened[alice] = 1
  /\ Cardinality(Fired(alice)) >= 2

\* C2: a channel that no applied result has reported live has no record and
\* the effect is not fired for it.
C2_NeverLiveNoRecordNoEffect ==
  \A c \in (DOMAIN live_sessions \cup DOMAIN opened \cup SeqToSet(list_channels)) \ everLive :
    /\ c \notin DOMAIN live_sessions
    /\ c \in DOMAIN opened => opened[c] = 0

\* C2 witness: results with alice and bob offline are applied before either was live
C2_Witness ==
  /\ alice \in DOMAIN branch /\ bob \in DOMAIN branch
  /\ everLive = {}

\* C3: applying a result that reports a channel live while it has no record
\* fires the effect once and creates the record: key = streamId, else startedAt;
\* offlineSince unset; lastSeenAt = now.
C3_FirstLive ==
  [][Applying =>
       \A c \in DOMAIN Applied :
         Applied[c].live /\ c \notin DOMAIN live_sessions =>
           /\ opened'[c] = 1
           /\ c \in DOMAIN live_sessions'
           /\ live_sessions'[c] = FreshRecord(Applied[c], now)]_vars

\* C3 witness: alice's first live observation had no stream id, the key is startedAt
C3_Witness ==
  /\ alice \in DOMAIN branch /\ branch[alice] = "first" /\ opened[alice] = 1
  /\ expired = {}
  /\ live_sessions[alice].session_id = "t1"

C5_ReconnectSuppressed ==
  [][Applying =>
       \A c \in DOMAIN Applied \cap DOMAIN live_sessions :
         Applied[c].live /\ WithinGrace(live_sessions[c], now)
         /\ KeyOf(Applied[c]) # live_sessions[c].session_id =>
           /\ opened'[c] = 0
           /\ c \in DOMAIN live_sessions'
           /\ live_sessions'[c].session_id = KeyOf(Applied[c])
           /\ live_sessions'[c].started_at = Applied[c].started_at
           /\ live_sessions'[c].offline_since = None]_vars

\* C5 witness: alice came back with another key, 300 s after she went offline
C5_Witness ==
  /\ alice \in DOMAIN branch /\ branch[alice] = "reconnect" /\ opened[alice] = 0
  /\ live_sessions[alice].session_id = "t1"
  /\ now >= StartEpoch + 300

\* C6: a record whose offlineSince is more than 300 s old when a result is
\* applied is removed by the sweep; if the result reports the channel live the
\* effect fires and a fresh record is made, whatever the session key.
C6_ExpiredThenFresh ==
  [][Applying =>
       \A c \in DOMAIN live_sessions :
         PastGrace(live_sessions[c], now) =>
           IF c \in DOMAIN Applied /\ Applied[c].live
           THEN /\ opened'[c] = 1
                /\ c \in DOMAIN live_sessions'
                /\ live_sessions'[c] = FreshRecord(Applied[c], now)
           ELSE c \notin DOMAIN live_sessions']_vars

\* C6 witness: alice's record expired and she is live again, the effect fired
C6_Witness ==
  /\ alice \in expired
  /\ alice \in DOMAIN opened /\ opened[alice] = 1
  /\ live_sessions[alice].last_seen = now

\* ------------------------------------------------ credentials (C7 - C9)
\* a _ensure_token call of thread t has returned, and while it ran the other
\* thread wrote neither the stored token nor the stored expiry
Returned(t) == ens[t].pc = "ret" /\ ~ens[t].raced

\* the call of thread t found a usable cached token: one is stored, no refresh
\* was forced, and more than the buffer remained until its expiry
FoundCached(t) ==
  /\ ens[t].entry[1] # 0
  /\ ~ens[t].force /\ ~ens[t].force_refresh
  /\ ens[t].entry[2] - ens[t].now > 300

\* C7, as stated: a _ensure_token call performs no token exchange if a cached
\* token exists, no refresh is forced and expiresAt - now > 300, and performs a
\* token exchange in every other case.
C7_ExchangeUnlessCached ==
  \A t \in Threads : Returned(t) => (ens[t].posted <=> ~FoundCached(t))

\* C7, amended: no exchange with a usable cached token; otherwise an exchange is
\* performed exactly if the client id and the client secret are both non-empty,
\* and with either of them empty the call fails without a network call.
C7_ExchangeUnlessCachedOrNoCredentials ==
  \A t \in Threads :
    Returned(t) =>
      /\ ens[t].posted <=>
           (~FoundCached(t) /\ ens[t].client_id # <<>> /\ ens[t].client_secret # <<>>)
      /\ (~FoundCached(t) /\ ~ens[t].posted) => ~ens[t].ok

\* a call has returned the cached token without an exchange, and the other
\* thread's call has returned after an exchange
C7_Witness ==
  \E t \in Threads, u \in Threads :
    /\ Returned(t) /\ FoundCached(t) /\ ens[t].ok /\ ~ens[t].posted
    /\ Returned(u) /\ ens[u].posted

\* C8: a _ensure_token call that fails (missing client id or secret, non-success
\* HTTP answer, answer without access_token or expires_in, transport error)
\* leaves the stored token and the stored expiry exactly as they were.
C8_FailureLeavesTokenUnchanged ==
  \A t \in Threads :
    (Returned(t) /\ ~ens[t].ok) =>
      << cfg_access_token, cfg_token_expires_at >> = ens[t].entry

\* a call that sent the exchange request has failed while a token was stored
C8_Witness ==
  \E t \in Threads :
    Returned(t) /\ ~ens[t].ok /\ ens[t].posted /\ ens[t].entry[1] # 0

\* the store of a successful exchange (lines 562-571) is under way in thread t
Storing(t) == ens[t].pc \in { "e563", "e564", "e571" }

\* C9: whenever no store is under way, a stored token and a stored expiry are
\* those of one exchange, under every interleaving of the GUI thread's handlers
\* (with _persist_config) and the worker thread's refresh.
C9_TokenAndExpiryFromOneExchange ==
  (\A t \in Threads : ~Storing(t)) =>
    ((cfg_access_token # 0 /\ cfg_token_expires_at # 0)
       => cfg_token_expires_at = issued[cfg_access_token])

\* ------------------------------------------------- check_channels (C10)
\* the result that the worker's latest check_channels call emitted
Emitted == resultQ[Len(resultQ)]
CallEnded == wk.pc = "idle" /\ resultQ # <<>>

\* C10: the result of check_channels has an entry for every normalised login
\* of the request, and every login that no parsed batch answer reported live
\* has live = FALSE in it, whatever errors the call met.
C10_ResultCoversEveryLogin ==
  CallEnded =>
    /\ \A i \in 1..Len(wk.req) :
         Strip(wk.req[i]) # <<>> => Lower(Strip(wk.req[i])) \in DOMAIN Emitted
    /\ \A l \in DOMAIN Emitted : l \notin wk.reported => ~Emitted[l].live

\* a call for three batches has ended after an error, with a login reported live
C10_Witness ==
  /\ CallEnded
  /\ Len(wk.req) > 2 * CHUNK
  /\ \E i \in 1..Len(wk.siglog) : wk.siglog[i] = "error"
  /\ wk.reported # {}
  /\ \E l \in DOMAIN Emitted : Emitted[l].live

\* ------------------------------------------ check_channels (C11 - C12)
\* the GETs of the worker's latest check_channels call, in order
Gets == wk.reqlog
\* GET i is the first one for its batch
FirstGet(i) == \A j \in 1..(i - 1) : Gets[j].chunk # Gets[i].chunk
\* GET i is the first one for its batch and was answered 401
Rejected(i) == FirstGet(i) /\ Gets[i].status = "unauthorized"
RejectedGets == { i \in 1..Len(Gets) : Rejected(i) }
\* GET i + 1 asks for the batch of GET i again, with a token issued after GET i was sent
RetriedWithNewToken(i) ==
  /\ i < Len(Gets)
  /\ Gets[i + 1].chunk = Gets[i].chunk
  /\ Gets[i + 1].token > Gets[i].known
AuthSignals == { i \in 1..Len(wk.siglog) : wk.siglog[i] = "auth" }
RefreshesFor(k) == { j \in 1..Len(wk.refreshes) : wk.refreshes[j].chunk = k }
GetsFor(k) == { i \in 1..Len(Gets) : Gets[i].chunk = k }
NeverMoreThanTwice == \A k \in 1..NumChunks(wk.logins) : Cardinality(GetsFor(k)) <= 2
OneSignalAndRefreshPerRejection ==
  /\ Cardinality(AuthSignals) = Cardinality(RejectedGets)
  /\ \A i \in RejectedGets : Cardinality(RefreshesFor(Gets[i].chunk)) = 1
  /\ Len(wk.refreshes) = Cardinality(RejectedGets)

C12_FailedBatchKeepsSiblings ==
  (CallEnded /\ Gets # <<>>) =>
    /\ \A k \in 1..NumChunks(wk.logins) : GetsFor(k) # {}
    /\ \A l \in wk.reported : Emitted[l].live

\* ---------------------------------------------- scheduler (C13 - C15)
\* a step of a cycle or of its outcome: a cycle is submitted or served, an error
\* signal or a result is emitted or handled, or time passes
CycleStep ==
  \/ sigCheckQ' # sigCheckQ
  \/ resultQ' # resultQ
  \/ errorQ' # errorQ
  \/ now' # now

\* while the timer is armed and the watch set is non-empty, its expiry submits a
\* cycle, whatever error signals are pending
ArmedTimerSubmits ==
  (timer_active /\ Channels # <<>> /\ Len(sigCheckQ) + Len(resultQ) < MaxQueue)
    => ENABLED (OnTimer /\ sigCheckQ' = Append(sigCheckQ, Channels))

\* C13: no step of a cycle or of its outcome (a credential, fetch or network
\* error reported, a result applied) disarms an armed timer, and while it is
\* armed with a non-empty watch set each expiry submits a cycle.
C13_TimerSurvivesErrors ==
  /\ []ArmedTimerSubmits
  /\ [][(timer_active /\ CycleStep) => timer_active']_vars

\* the timer is armed and a cycle has ended with error signals that the GUI
\* thread has not handled yet
C13_Witness == timer_active /\ errorQ > 0 /\ resultQ # <<>>

\* a step that disarms the armed timer: _stop_poll
Disarming == timer_active /\ ~timer_active'

\* C14, as stated: when stop has disarmed the timer no cycle is left pending:
\* no request is queued for the worker and no result awaits its application.
C14_StopLeavesNothingPending ==
  [][Disarming => (sigCheckQ' = <<>> /\ resultQ' = <<>>)]_vars

\* C14, amended: stop disarms the timer, a disarmed timer submits no cycle, and
\* stop cancels nothing: the requests and results that are queued stay queued
\* (the worker serves them and _on_result applies them).
C14_StopOnlyDisarms ==
  /\ []ENABLED (StopPoll /\ ~timer_active')
  /\ [](~timer_active => ~ENABLED OnTimer)
  /\ [][Disarming => UNCHANGED << sigCheckQ, resultQ, errorQ, live_sessions >>]_vars

\* the scheduler was started and stopped again, and the result of a cycle
\* submitted meanwhile still awaits its application
C14_Witness == cleared /\ ~timer_active /\ resultQ # <<>>

\* what a manual trigger does: one cycle for the watch set is submitted if the
\* set is non-empty, none otherwise; the timer stays armed or disarmed as it
\* was, with the interval it had
ManualEffect ==
  /\ sigCheckQ' = IF Channels # <<>> THEN Append(sigCheckQ, Channels) ELSE sigCheckQ
  /\ UNCHANGED << timer_active, timer_interval >>

\* C15: a manual trigger can be made whether the scheduler is started or
\* stopped, and every manual trigger submits exactly one cycle (none for an
\* empty watch set) and leaves the timer's state and interval unchanged.
C15_ManualTriggerOneCycle ==
  /\ Len(sigCheckQ) + Len(resultQ) < MaxQueue => ENABLED ManualCheck
  /\ ~ENABLED (ManualCheck /\ ~ManualEffect)

\* the timer is armed with an interval that the fields no longer show, the
\* cycle of the start has been applied, and another cycle is queued
C15_Witness ==
  /\ timer_active /\ ~cleared
  /\ timer_interval # CurrentIntervalSec * 1000
  /\ sigCheckQ # <<>>

\* C16 as stated: when streamId and startedAt are both empty, every applied
\* result that reports the channel live fires the effect.
C16_EmptyKeyAlwaysFires ==
  [][Applying =>
       \A c \in DOMAIN Applied :
         Applied[c].live /\ KeyOf(Applied[c]) = "" => opened'[c] = 1]_vars

\* C16 amended: the empty key is compared like any other key. A live
\* observation with an empty key fires the effect exactly when (after the
\* expiry sweep) the channel has no record, or its record has a non-empty key
\* and is not in Grace; when the record's key is empty too the observation
\* counts as the same session: no effect, lastSeenAt refreshed, offlineSince
\* cleared.
C16_EmptyKeyComparedAsKey ==
  [][Applying =>
       \A c \in DOMAIN Applied :
         Applied[c].live /\ KeyOf(Applied[c]) = "" =>
           /\ opened'[c] = 1 <=>
                \/ c \notin DOMAIN live_sessions
                \/ PastGrace(live_sessions[c], now)
                \/ /\ live_sessions[c].session_id # ""
                   /\ ~WithinGrace(live_sessions[c], now)
           /\ (/\ c \in DOMAIN live_sessions
               /\ ~PastGrace(live_sessions[c], now)
               /\ live_sessions[c].session_id = "") =>
                 /\ opened'[c] = 0
                 /\ live_sessions'[c] =
                      [live_sessions[c] EXCEPT !.last_seen = now,
                                               !.offline_since = None]]_vars

\* C16 witness: alice was seen live with an empty key twice in a row, the
\* second observation fired nothing
C16_Witness ==
  /\ alice \in DOMAIN branch /\ branch[alice] = "same" /\ opened[alice] = 0
  /\ alice \in DOMAIN lastResult /\ lastResult[alice].live
  /\ KeyOf(lastResult[alice]) = ""
  /\ live_sessions[alice].session_id = ""

\* a record whose offlineSince is exactly d seconds old at time t
OfflineFor(rec, t, d) ==
  rec.offline_since # None /\ rec.offline_since # 0 /\ t - rec.offline_since = d

\* C17 as stated: a channel whose record is in Grace, observed live exactly
\* 300 s after offlineSince, is judged against a fresh state: the effect fires.
C17_BoundaryJudgedFresh ==
  [][Applying =>
       \A c \in DOMAIN Applied \cap DOMAIN live_sessions :
         Applied[c].live /\ OfflineFor(live_sessions[c], now, 300) =>
           /\ opened'[c] = 1
           /\ live_sessions'[c] = FreshRecord(Applied[c], now)]_vars

\* C17 amended: exactly 300 s after offlineSince the record is still in Grace.
\* The sweep keeps it and the live observation is judged against it: no effect
\* fires, whether the session key changed or not; the record takes the
\* observation's key and offlineSince is cleared. One second later the sweep
\* deletes the record and the live observation fires the effect.
C17_BoundaryStillInGrace ==
  [][Applying =>
       \A c \in DOMAIN Applied \cap DOMAIN live_sessions :
         Applied[c].live =>
           /\ OfflineFor(live_sessions[c], now, 300) =>
                /\ opened'[c] = 0
                /\ c \notin expired'
                /\ branch'[c] \in { "same", "reconnect" }
                /\ live_sessions'[c].session_id = KeyOf(Applied[c])
                /\ live_sessions'[c].offline_since = None
                /\ live_sessions'[c].last_seen = now
           /\ OfflineFor(live_sessions[c], now, 301) =>
                /\ opened'[c] = 1
                /\ c \in expired'
                /\ live_sessions'[c] = FreshRecord(Applied[c], now)]_vars

\* C17 witness: alice went offline at StartEpoch and is live with another key
\* exactly 300 s later; her record was not swept and nothing fired
C17_Witness ==
  /\ now = StartEpoch + 300
  /\ alice \in DOMAIN branch /\ branch[alice] = "reconnect" /\ opened[alice] = 0
  /\ expired = {}
  /\ live_sessions[alice].last_seen = now
  /\ live_sessions[alice].session_id = "100"

\* C18: a channel whose record has offlineSince unset, observed live with a
\* session key other than the record's: the effect fires and the record takes
\* the new key and startedAt, with offlineSince unset.
C18_NewKeyWhileLive ==
  [][Applying =>
       \A c \in DOMAIN Applied \cap DOMAIN live_sessions :
         Applied[c].live /\ live_sessions[c].offline_since = None
         /\ KeyOf(Applied[c]) # live_sessions[c].session_id =>
           /\ opened'[c] = 1
           /\ c \in DOMAIN live_sessions'
           /\ live_sessions'[c].session_id = KeyOf(Applied[c])
           /\ live_sessions'[c].started_at = Applied[c].started_at
           /\ live_sessions'[c].offline_since = None]_vars

\* C18 witness: alice, live in session "100", is next seen live with key "t1"
\* and no offline observation in between; the effect fired
C18_Witness ==
  /\ alice \in DOMAIN branch /\ branch[alice] = "new" /\ opened[alice] = 1
  /\ now = StartEpoch /\ ~cleared
  /\ live_sessions[alice].session_id = "t1"
  /\ live_sessions[alice].offline_since = None

\* C19: an offline observation never fires the effect and never creates a
\* record; for a record that is there when the per-channel rules run (the
\* expiry sweep has not removed it) it sets offlineSince = now if offlineSince
\* was unset, and otherwise leaves the whole record as it was.
C19_OfflineObservation ==
  [][Applying =>
       \A c \in DOMAIN Applied :
         ~Applied[c].live =>
           /\ opened'[c] = 0
           /\ IF c \in DOMAIN live_sessions /\ ~PastGrace(live_sessions[c], now)
              THEN /\ c \in DOMAIN live_sessions'
                   /\ live_sessions'[c] =
                        IF live_sessions[c].offline_since = None
                        THEN [live_sessions[c] EXCEPT !.offline_since = now]
                        ELSE live_sessions[c]
              ELSE c \notin DOMAIN live_sessions']_vars

\* C19 witness: alice, offline since StartEpoch, is polled offline again 300 s
\* later; offlineSince still is StartEpoch
C19_Witness ==
  /\ alice \in DOMAIN branch /\ branch[alice] = "offline_noop" /\ opened[alice] = 0
  /\ now = StartEpoch + 300
  /\ alice \in DOMAIN live_sessions
  /\ live_sessions[alice].offline_since = StartEpoch

WorkerWritesToken ==
  /\ ens["worker"].pc \in { "e562", "e563", "e571" }
  /\ ens'["worker"].pc # ens["worker"].pc
  /\ << cfg_access_token', cfg_token_expires_at' >>
       # << cfg_access_token, cfg_token_expires_at >>

\* this step is a statement of check_channels or of a call it makes
WorkerThreadStep == wk' # wk \/ ens'["worker"] # ens["worker"]

\* C21: the credential state (access token, expiry) and the session records
\* are written by the GUI thread only; no step of the worker thread changes
\* them, also when it obtains headers or forces a refresh after a 401.
C21_OnlyForegroundWrites ==
  [][/\ ~WorkerWritesToken
     /\ WorkerThreadStep /\ ens'["gui"] = ens["gui"] =>
          live_sessions' = live_sessions]_vars

\* thread t's _ensure_token call is past the tests of lines 538-547: it is about
\* to send the POST of line 551, or is storing what the exchange returned
Refreshing(t) == ens[t].pc \in { "e551", "e562", "e563", "e564", "e571" }

\* C22: token refresh is a critical section: in every interleaving of the
\* worker's calls with the GUI thread's handlers at most one call is
\* exchanging at a time, and a call that begins while another is exchanging
\* issues no exchange of its own.
C22_SingleRefreshInFlight ==
  /\ ~(Refreshing("gui") /\ Refreshing("worker"))
  /\ \A t \in Threads : \A u \in Threads \ {t} :
       ens[t].pc = "e551" => ~ens[u].posted

\* C23: every HTTP call (token exchange, status query) is made by the worker
\* thread; no handler of the GUI thread (start, credential edit, fetch-token
\* button) sends the POST of the token exchange itself.
C23_HttpOnlyInBackground == ~ens["gui"].posted

\* a sigCheck event is queued behind those waiting
Queued == \E logins \in WatchSets : sigCheckQ' = Append(sigCheckQ, logins)
\* the worker thread takes the oldest sigCheck event while it executes no cycle
Begun ==
  /\ wk.pc = "idle" /\ sigCheckQ # <<>>
  /\ sigCheckQ' = Tail(sigCheckQ) /\ wk'.req = Head(sigCheckQ)
\* the executing cycle ends: its result is queued behind those waiting
Ended ==
  /\ wk'.pc = "idle"
  /\ Len(resultQ') = Len(resultQ) + 1
  /\ SubSeq(resultQ', 1, Len(resultQ)) = resultQ
  /\ DOMAIN resultQ'[Len(resultQ')] = SeqToSet(NormalizeLogins(wk'.req))
  /\ sigCheckQ' = sigCheckQ \/ Begun

\* C24: at most one fetch cycle executes at a time. A trigger that arrives
\* while a cycle is outstanding is queued; the worker begins a cycle only when
\* none is executing and takes the oldest request; the result of the executing
\* cycle is queued behind the earlier results, and _on_result applies the
\* oldest result, one at a time.
C24_OneCycleInOrder ==
  [][/\ sigCheckQ' # sigCheckQ => Queued \/ Begun
     /\ resultQ' # resultQ =>
          \/ Ended
          \/ Applying /\ lastResult' = Head(resultQ) /\ wk' = wk
     /\ (wk.pc # "idle" /\ wk'.pc # "idle") =>
          wk'.req = wk.req /\ (resultQ' = resultQ \/ Applying)]_vars

\* C24 witness: a trigger for bob arrived while the cycle for alice was at its
\* GET; it waits in the queue
C24_Witness ==
  /\ wk.pc = "w102" /\ wk.req = << alice >>
  /\ sigCheckQ = << << bob >> >>

\* C25: every status query is sent with a token that was usable when its
\* headers were obtained: non-empty, with expiresAt - now > 300 at that moment
\* (now as _get_headers_safely read it at line 586), whatever expires_in the
\* token endpoint returned.  Line 589 builds the headers after the test of
\* line 587 found nothing to refresh, or after the refresh of line 588.
C25_QueriesUseUsableToken ==
  [][/\ (wk.g_pc = "g584" /\ wk'.g_pc = "g589") =>
          cfg_access_token # NoToken /\ cfg_token_expires_at - now > 300
     /\ (wk.g_pc = "g588" /\ wk'.g_pc = "g589") =>
          /\ cfg_access_token # NoToken
          /\ cfg_token_expires_at - ens["worker"].now > 300]_vars

\* a sigCheck event is delivered: check_channels is called
Delivered == sigCheckQ # <<>> /\ sigCheckQ' = Tail(sigCheckQ)
\* the step emits resultReady once, with the call's out
EmitsOne == resultQ' = Append(resultQ, wk'.out)
\* the step ends a check_channels call
Returns == wk'.pc = "idle" /\ (Delivered \/ wk.pc # "idle")

\* C26: every request delivered to the worker produces exactly one result, on
\* every path: a call never stops before its end, a step emits a result exactly
\* when it ends a call, and it emits one.
C26_ExactlyOneResult ==
  /\ [](wk.pc # "idle" => ENABLED WorkerStep)
  /\ [][IF Returns THEN EmitsOne ELSE resultQ' = resultQ]_vars

\* C26 witness: a call of two batches ended by a transport error on its first
\* GET, after a 401, has emitted its result
C26_Witness ==
  /\ wk.pc = "idle" /\ Len(resultQ) = 1
  /\ Len(wk.logins) > CHUNK
  /\ Len(wk.reqlog) = 2
  /\ wk.reqlog[1].status = "unauthorized"
  /\ wk.reqlog[2].status = "network_error"

\* C27: within a cycle, once the forced refresh after a 401 on some batch has
\* succeeded, the first GET of every later batch carries the refreshed token,
\* never the token that was rejected.
C27_LaterBatchesUseRefreshedToken ==
  \A i \in RejectedGets :
    \A j \in RefreshesFor(Gets[i].chunk) :
      wk.refreshes[j].ok =>
        \A n \in 1..Len(Gets) :
          (FirstGet(n) /\ Gets[n].chunk > Gets[i].chunk) =>
            /\ Gets[n].token # Gets[i].token
            /\ Gets[n].token >= wk.refreshes[j].token

\* C28: when a result is applied, the effect fires and a record is created only
\* for logins that are in the watch set at that moment; a channel removed while
\* the cycle was queued or in flight gets neither.
C28_EffectOnlyForWatched ==
  [][Applying =>
       \A c \in DOMAIN Applied :
         c \notin SeqToSet(Channels) =>
           /\ opened'[c] = 0
           /\ c \notin DOMAIN live_sessions' \ DOMAIN live_sessions]_vars

\* C29: right after a result is applied at time now: every login it reported
\* live has a record with the observation's session key and offlineSince
\* unset; every login it reported offline has no record or a record with
\* offlineSince set; and no record at all has offlineSince more than 300 s old.
C29_TrackerAfterApply ==
  [][Applying =>
       /\ \A c \in DOMAIN Applied :
            IF Applied[c].live
            THEN /\ c \in DOMAIN live_sessions'
                 /\ live_sessions'[c].session_id = KeyOf(Applied[c])
                 /\ live_sessions'[c].offline_since = None
            ELSE \/ c \notin DOMAIN live_sessions'
                 \/ live_sessions'[c].offline_since \notin { None, 0 }
       /\ \A c \in DOMAIN live_sessions' : ~PastGrace(live_sessions'[c], now)]_vars

\* C29 witness: a result applied after the clock moved found alice gone offline;
\* her record now has offlineSince = now
C29_Witness ==
  /\ alice \in DOMAIN branch /\ branch[alice] = "went_offline"
  /\ now > StartEpoch
  /\ live_sessions[alice].offline_since = now

====
